---------------------------- MODULE Spec2Model ----------------------------
(***************************************************************************)
(* IntSet (src/IntSet.cpp): a set of distinct ints kept in a dynamic array *)
(* in order of membership.  The model keeps the C++ object layout: every   *)
(* IntSet object has the members data (a pointer into the heap), capacity  *)
(* and used; the heap maps addresses to int arrays.  C++ arrays are        *)
(* 0-based, TLA+ sequences 1-based: data[index] is Arr(m, s)[index + 1].   *)
(***************************************************************************)
EXTENDS Integers, Sequences, FiniteSets

\* ---- bounds of the model ------------------------------------------------
MaxVal == 2
NumSets == 3
MaxHint == 2

\* ---- program constants --------------------------------------------------
\* IntSet.h declares DEFAULT_CAPACITY; the documentation of resize gives its
\* value ("adjusted to 1 or DEFAULT_CAPACITY").
DEFAULT_CAPACITY == 1

Val == 1 .. MaxVal            \* the ints client code adds and removes
AnyInt == 0 .. MaxVal         \* what a read of an indeterminate int may give
                              \* (0 stands for every int outside Val)
Hints == -1 .. MaxHint        \* initial_capacity arguments
Sets == 1 .. NumSets          \* IntSet objects (variables of client code)
Addrs == Sets                 \* heap addresses
NULL == 0
Indet == -1                   \* an int slot that was never written

VARIABLES obj, heap, last
vars == <<obj, heap, last>>

\* An object outside its lifetime.
NoObj == [data |-> NULL, capacity |-> 0, used |-> 0]

\* The memory an operation works on.
Mem == [obj |-> obj, heap |-> heap]
MemP == [obj |-> obj', heap |-> heap']

Live(m, s) == m.obj[s].data # NULL
Arr(m, s) == m.heap[m.obj[s].data]

\* The address new int[n] returns to a member function of object s.  The
\* program never inspects an address, so addresses name allocations up to
\* renaming: the array an object allocates is named after the object, and when
\* a member function replaces the object's array (new, copy, delete [] of the
\* old one) the new array takes over the name the old one gives up.
NewAddr(m, s) == s
RECURSIVE NewArray(_)
NewArray(n) == IF n <= 0 THEN << >> ELSE Append(NewArray(n - 1), Indet)

\* The valid prefix data[0 .. used-1] as a sequence, and as a set.
Elems(m, s) == SubSeq(Arr(m, s), 1, m.obj[s].used)
Members(m, s) == {Arr(m, s)[idx] : idx \in 1 .. m.obj[s].used}

------------------------------------------------------------------------------
\* ---- member functions ---------------------------------------------------

size(m, s) == m.obj[s].used

isEmpty(m, s) == m.obj[s].used = 0

\* contains that scans the whole array, stale slots included.
containsWholeArray(m, s, anInt) ==
    /\ m.obj[s].capacity > 0
    /\ \E index \in 0 .. m.obj[s].capacity - 1 : Arr(m, s)[index + 1] = anInt

contains(m, s, anInt) ==
    /\ m.obj[s].used > 0
    /\ \E index \in 0 .. m.obj[s].used - 1 : Arr(m, s)[index + 1] = anInt

\* resize that fits the array to the current contents whatever was asked for.
resizeToFit(m, s, new_capacity) ==
    LET o == m.obj[s]
        cap == IF o.used = 0 THEN DEFAULT_CAPACITY ELSE o.used
        a == NewAddr(m, s)
        new_data == SubSeq(m.heap[o.data], 1, cap)
    IN [obj |-> [m.obj EXCEPT ![s] = [data |-> a, capacity |-> cap, used |-> o.used]],
        heap |-> [m.heap EXCEPT ![o.data] = << >>, ![a] = new_data]]

resize(m, s, new_capacity) ==
    LET o == m.obj[s]
        cap == IF new_capacity <= 0 THEN DEFAULT_CAPACITY
               ELSE IF new_capacity < o.used THEN o.used
               ELSE new_capacity
        a == NewAddr(m, s)
        \* the copy loop writes used values; those written past the end of a
        \* shorter new array are not part of it
        kept == IF o.used < cap THEN o.used ELSE cap
        new_data == SubSeq(m.heap[o.data], 1, kept) \o NewArray(cap - o.used)
    IN [obj |-> [m.obj EXCEPT ![s] = [data |-> a, capacity |-> cap, used |-> o.used]],
        heap |-> [m.heap EXCEPT ![o.data] = << >>, ![a] = new_data]]

\* A constructor that takes a capacity of 0 as valid.
CtorZeroAllowed(m, s, initial_capacity) ==
    LET cap == IF initial_capacity < 0 THEN DEFAULT_CAPACITY ELSE initial_capacity
        a == NewAddr(m, s)
    IN [obj |-> [m.obj EXCEPT ![s] = [data |-> a, capacity |-> cap, used |-> 0]],
        heap |-> [m.heap EXCEPT ![a] = NewArray(cap)]]

\* IntSet(int initial_capacity), constructing object s.
Ctor(m, s, initial_capacity) ==
    LET cap == IF initial_capacity <= 0 THEN DEFAULT_CAPACITY ELSE initial_capacity
        a == NewAddr(m, s)
    IN [obj |-> [m.obj EXCEPT ![s] = [data |-> a, capacity |-> cap, used |-> 0]],
        heap |-> [m.heap EXCEPT ![a] = NewArray(cap)]]

\* A copy constructor that copies the pointer instead of the array.
CopyCtorShallow(m, s, src) ==
    [obj |-> [m.obj EXCEPT ![s] = m.obj[src]], heap |-> m.heap]

\* IntSet(const IntSet& src), constructing object s: all capacity slots are copied.
CopyCtor(m, s, src) ==
    LET o == m.obj[src]
        a == NewAddr(m, s)
    IN [obj |-> [m.obj EXCEPT ![s] = [data |-> a, capacity |-> o.capacity, used |-> o.used]],
        heap |-> [m.heap EXCEPT ![a] = SubSeq(m.heap[o.data], 1, o.capacity)]]

\* ~IntSet()
Dtor(m, s) ==
    [obj |-> [m.obj EXCEPT ![s] = NoObj],
     heap |-> [m.heap EXCEPT ![m.obj[s].data] = << >>]]

reset(m, s) == [m EXCEPT !.obj[s].used = 0]

\* add without the membership test.
addNoCheck(m, s, anInt) ==
    LET m1 == IF m.obj[s].used >= m.obj[s].capacity
              THEN resize(m, s, (3 * m.obj[s].capacity) \div 2 + 1)
              ELSE m
        o == m1.obj[s]
    IN [obj |-> [m1.obj EXCEPT ![s].used = o.used + 1],
        heap |-> [m1.heap EXCEPT ![o.data][o.used + 1] = anInt]]

\* add that grows the array only once it is overfull (used > capacity).
addLateGrow(m, s, anInt) ==
    IF ~contains(m, s, anInt)
    THEN LET m1 == IF m.obj[s].used > m.obj[s].capacity
                   THEN resize(m, s, (3 * m.obj[s].capacity) \div 2 + 1)
                   ELSE m
             o == m1.obj[s]
         IN [obj |-> [m1.obj EXCEPT ![s].used = o.used + 1],
             heap |-> [m1.heap EXCEPT ![o.data][o.used + 1] = anInt]]
    ELSE m

\* add that grows the array by one slot.
addGrowByOne(m, s, anInt) ==
    IF ~contains(m, s, anInt)
    THEN LET m1 == IF m.obj[s].used >= m.obj[s].capacity
                   THEN resize(m, s, m.obj[s].capacity + 1)
                   ELSE m
             o == m1.obj[s]
         IN [obj |-> [m1.obj EXCEPT ![s].used = o.used + 1],
             heap |-> [m1.heap EXCEPT ![o.data][o.used + 1] = anInt]]
    ELSE m

addRet(m, s, anInt) == ~contains(m, s, anInt)

add(m, s, anInt) ==
    IF ~contains(m, s, anInt)
    THEN LET m1 == IF m.obj[s].used >= m.obj[s].capacity
                   THEN resize(m, s, (3 * m.obj[s].capacity) \div 2 + 1)
                   ELSE m
             o == m1.obj[s]
         IN [obj |-> [m1.obj EXCEPT ![s].used = o.used + 1],
             heap |-> [m1.heap EXCEPT ![o.data][o.used + 1] = anInt]]
    ELSE m

\* remove that fills the hole with the last valid element.
removeSwapLast(m, s, anInt) ==
    IF contains(m, s, anInt)
    THEN LET o == m.obj[s]
             d == m.heap[o.data]
             p == CHOOSE i \in 1 .. o.used : d[i] = anInt
         IN [obj |-> [m.obj EXCEPT ![s].used = o.used - 1],
             heap |-> [m.heap EXCEPT ![o.data][p] = d[o.used]]]
    ELSE m

\* remove whose shift loop starts one slot late.
removeLateShift(m, s, anInt) ==
    IF contains(m, s, anInt)
    THEN LET o == m.obj[s]
             d == m.heap[o.data]
             p == CHOOSE i \in 1 .. o.used :
                      d[i] = anInt /\ \A j \in 1 .. i - 1 : d[j] # anInt
             shifted == SubSeq(d, 1, p) \o SubSeq(d, p + 2, o.used)
                            \o SubSeq(d, IF p < o.used THEN o.used ELSE o.used + 1,
                                      o.capacity)
         IN [obj |-> [m.obj EXCEPT ![s].used = o.used - 1],
             heap |-> [m.heap EXCEPT ![o.data] = shifted]]
    ELSE m

removeRet(m, s, anInt) == contains(m, s, anInt)

\* The first index holding anInt (1-based); the inner loop shifts the later
\* valid elements one slot left, and the last valid slot keeps its old value.
remove(m, s, anInt) ==
    IF contains(m, s, anInt)
    THEN LET o == m.obj[s]
             d == m.heap[o.data]
             p == CHOOSE i \in 1 .. o.used :
                      d[i] = anInt /\ \A j \in 1 .. i - 1 : d[j] # anInt
             shifted == SubSeq(d, 1, p - 1) \o SubSeq(d, p + 1, o.used)
                            \o SubSeq(d, o.used, o.capacity)
         IN [obj |-> [m.obj EXCEPT ![s].used = o.used - 1],
             heap |-> [m.heap EXCEPT ![o.data] = shifted]]
    ELSE m

\* An assignment that takes over the pointer of rhs instead of copying.
AssignShallow(m, s, rhs) ==
    IF s = rhs
    THEN m
    ELSE [obj |-> [m.obj EXCEPT ![s] = m.obj[rhs]],
          heap |-> [m.heap EXCEPT ![m.obj[s].data] = << >>]]

\* operator=, invoked on object s with argument rhs.
Assign(m, s, rhs) ==
    IF s = rhs
    THEN m
    ELSE LET r == m.obj[rhs]
             a == NewAddr(m, s)
             temp_data == SubSeq(m.heap[r.data], 1, r.used)
                              \o NewArray(r.capacity - r.used)
         IN [obj |-> [m.obj EXCEPT ![s] = [data |-> a, capacity |-> r.capacity,
                                             used |-> r.used]],
             heap |-> [m.heap EXCEPT ![m.obj[s].data] = << >>, ![a] = temp_data]]

\* isSubsetOf whose loop stops one element early.
isSubsetOfShort(m, s, otherIntSet) ==
    IF isEmpty(m, s)
    THEN TRUE
    ELSE \A index \in 0 .. m.obj[s].used - 2 :
             contains(m, otherIntSet, Arr(m, s)[index + 1])

isSubsetOf(m, s, otherIntSet) ==
    IF isEmpty(m, s)
    THEN TRUE
    ELSE \A index \in 0 .. m.obj[s].used - 1 :
             contains(m, otherIntSet, Arr(m, s)[index + 1])

\* What the expression s.data[index] can evaluate to: the slot's value, or any
\* int when the slot was never written or lies outside the array.
ReadData(m, s, index) ==
    IF index + 1 > Len(Arr(m, s)) THEN AnyInt
    ELSE IF Arr(m, s)[index + 1] = Indet THEN AnyInt
    ELSE {Arr(m, s)[index + 1]}

\* The loop of unionWith from position index on; u is the local unionIntSet.
RECURSIVE unionLoop(_, _, _, _, _)
unionLoop(m, u, otherIntSet, sizeOtherInt, index) ==
    IF index >= sizeOtherInt
    THEN {m}
    ELSE UNION {unionLoop(IF ~contains(m, u, v) THEN add(m, u, v) ELSE m,
                          u, otherIntSet, sizeOtherInt, index + 1) :
                v \in ReadData(m, otherIntSet, index)}

\* unionWith that runs its loop up to the size of the invoking set.
unionWithOwnSize(m, s, otherIntSet, u) ==
    unionLoop(CopyCtor(m, u, s), u, otherIntSet, size(m, s), 0)

\* s.unionWith(otherIntSet), the returned object constructed as object u.
unionWith(m, s, otherIntSet, u) ==
    unionLoop(CopyCtor(m, u, s), u, otherIntSet, size(m, otherIntSet), 0)

\* The loop of intersect: it indexes the invoking set's own array, data[index],
\* with index running up to the size of otherIntSet.
RECURSIVE intersectLoop(_, _, _, _, _, _)
intersectLoop(m, s, interSet, otherIntSet, sizeOtherInt, index) ==
    IF index >= sizeOtherInt
    THEN {m}
    ELSE UNION {intersectLoop(IF ~contains(m, otherIntSet, v)
                              THEN remove(m, interSet, v) ELSE m,
                              s, interSet, otherIntSet, sizeOtherInt, index + 1) :
                v \in ReadData(m, s, index)}

\* intersect that removes from the invoking set instead of from its copy.
intersectOnSelf(m, s, otherIntSet, interSet) ==
    intersectLoop(CopyCtor(m, interSet, s), s, s, otherIntSet,
                  size(m, otherIntSet), 0)

\* intersect whose result starts as an empty set instead of a copy.
intersectFromEmpty(m, s, otherIntSet, interSet) ==
    intersectLoop(Ctor(m, interSet, m.obj[s].capacity), s, interSet, otherIntSet,
                  size(m, otherIntSet), 0)

intersect(m, s, otherIntSet, interSet) ==
    intersectLoop(CopyCtor(m, interSet, s), s, interSet, otherIntSet,
                  size(m, otherIntSet), 0)

RECURSIVE subtractLoop(_, _, _, _, _)
subtractLoop(m, subSet, otherIntSet, sizeOtherInt, index) ==
    IF index >= sizeOtherInt
    THEN {m}
    ELSE UNION {subtractLoop(IF contains(m, subSet, v) THEN remove(m, subSet, v) ELSE m,
                             subSet, otherIntSet, sizeOtherInt, index + 1) :
                v \in ReadData(m, otherIntSet, index)}

\* subtract that runs its loop up to the size of the invoking set.
subtractOwnSize(m, s, otherIntSet, subSet) ==
    subtractLoop(CopyCtor(m, subSet, s), subSet, otherIntSet, size(m, s), 0)

subtract(m, s, otherIntSet, subSet) ==
    subtractLoop(CopyCtor(m, subSet, s), subSet, otherIntSet, size(m, otherIntSet), 0)

\* operator== that tests one inclusion only.
EqualsOneWay(m, is1, is2) ==
    IF isEmpty(m, is1) /\ isEmpty(m, is2) THEN TRUE
    ELSE IF isSubsetOf(m, is1, is2) THEN TRUE
    ELSE FALSE

\* operator==
Equals(m, is1, is2) ==
    IF isEmpty(m, is1) /\ isEmpty(m, is2) THEN TRUE
    ELSE IF isSubsetOf(m, is1, is2) /\ isSubsetOf(m, is2, is1) THEN TRUE
    ELSE FALSE

------------------------------------------------------------------------------
\* ---- the state machine --------------------------------------------------

\* last records the operation of the latest step: its name, the invoking
\* object, the argument object, the object constructed (res) and the bool
\* returned.
NoOp == [op |-> "init", self |-> 0, other |-> 0, res |-> 0, ret |-> FALSE]

Init ==
    /\ obj = [s \in Sets |-> NoObj]
    /\ heap = [a \in Addrs |-> << >>]
    /\ last = NoOp

Construct(s, hint) ==
    /\ ~Live(Mem, s)
    /\ obj' = Ctor(Mem, s, hint).obj
    /\ heap' = Ctor(Mem, s, hint).heap
    /\ last' = [NoOp EXCEPT !.op = "ctor", !.res = s]

Destroy(s) ==
    /\ Live(Mem, s)
    /\ obj' = Dtor(Mem, s).obj
    /\ heap' = Dtor(Mem, s).heap
    /\ last' = [NoOp EXCEPT !.op = "dtor", !.self = s]

Add(s, x) ==
    /\ Live(Mem, s)
    /\ obj' = add(Mem, s, x).obj
    /\ heap' = add(Mem, s, x).heap
    /\ last' = [NoOp EXCEPT !.op = "add", !.self = s,
                            !.ret = addRet(Mem, s, x)]

Remove(s, x) ==
    /\ Live(Mem, s)
    /\ obj' = remove(Mem, s, x).obj
    /\ heap' = remove(Mem, s, x).heap
    /\ last' = [NoOp EXCEPT !.op = "remove", !.self = s,
                            !.ret = removeRet(Mem, s, x)]

Reset(s) ==
    /\ Live(Mem, s)
    /\ obj' = reset(Mem, s).obj
    /\ heap' = reset(Mem, s).heap
    /\ last' = [NoOp EXCEPT !.op = "reset", !.self = s]

CopyConstruct(s, src) ==
    /\ ~Live(Mem, s)
    /\ Live(Mem, src)
    /\ obj' = CopyCtor(Mem, s, src).obj
    /\ heap' = CopyCtor(Mem, s, src).heap
    /\ last' = [NoOp EXCEPT !.op = "copy", !.other = src, !.res = s]

AssignOp(s, rhs) ==
    /\ Live(Mem, s)
    /\ Live(Mem, rhs)
    /\ obj' = Assign(Mem, s, rhs).obj
    /\ heap' = Assign(Mem, s, rhs).heap
    /\ last' = [NoOp EXCEPT !.op = "assign", !.self = s, !.other = rhs]

UnionWith(s, o, r) ==
    /\ Live(Mem, s) /\ Live(Mem, o) /\ ~Live(Mem, r)
    /\ \E m \in unionWith(Mem, s, o, r) : obj' = m.obj /\ heap' = m.heap
    /\ last' = [NoOp EXCEPT !.op = "unionWith", !.self = s, !.other = o, !.res = r]

Intersect(s, o, r) ==
    /\ Live(Mem, s) /\ Live(Mem, o) /\ ~Live(Mem, r)
    /\ \E m \in intersect(Mem, s, o, r) : obj' = m.obj /\ heap' = m.heap
    /\ last' = [NoOp EXCEPT !.op = "intersect", !.self = s, !.other = o, !.res = r]

Subtract(s, o, r) ==
    /\ Live(Mem, s) /\ Live(Mem, o) /\ ~Live(Mem, r)
    /\ \E m \in subtract(Mem, s, o, r) : obj' = m.obj /\ heap' = m.heap
    /\ last' = [NoOp EXCEPT !.op = "subtract", !.self = s, !.other = o, !.res = r]

Next ==
    \/ \E s \in Sets, hint \in Hints : Construct(s, hint)
    \/ \E s \in Sets : Destroy(s)
    \/ \E s \in Sets, x \in Val : Add(s, x)
    \/ \E s \in Sets, x \in Val : Remove(s, x)
    \/ \E s \in Sets : Reset(s)
    \/ \E s \in Sets, src \in Sets : CopyConstruct(s, src)
    \/ \E s \in Sets, rhs \in Sets : AssignOp(s, rhs)
    \/ \E s \in Sets, o \in Sets, r \in Sets : UnionWith(s, o, r)
    \/ \E s \in Sets, o \in Sets, r \in Sets : Intersect(s, o, r)
    \/ \E s \in Sets, o \in Sets, r \in Sets : Subtract(s, o, r)

Spec == Init /\ [][Next]_vars

\* One IntSet object, its values drawn from a set one larger, so that the
\* array grows twice (capacity 1, 2, 4) and a removal shifts two elements.
MutVal == 1 .. MaxVal + 1
NextOne ==
    \/ \E hint \in Hints : Construct(1, hint)
    \/ Destroy(1)
    \/ \E x \in MutVal : Add(1, x)
    \/ \E x \in MutVal : Remove(1, x)
    \/ Reset(1)

SpecOne == Init /\ [][NextOne]_vars

\* Two IntSet objects and the comparisons between them.  The queries are
\* const member functions: they leave every object as it is.
IsSubsetOf(s, o) ==
    /\ Live(Mem, s) /\ Live(Mem, o)
    /\ UNCHANGED <<obj, heap>>
    /\ last' = [NoOp EXCEPT !.op = "isSubsetOf", !.self = s, !.other = o,
                            !.ret = isSubsetOf(Mem, s, o)]

EqualsOp(s, o) ==
    /\ Live(Mem, s) /\ Live(Mem, o)
    /\ UNCHANGED <<obj, heap>>
    /\ last' = [NoOp EXCEPT !.op = "equals", !.self = s, !.other = o,
                            !.ret = Equals(Mem, s, o)]

Pair == 1 .. 2

NextQuery ==
    \/ \E s \in Pair, hint \in Hints : Construct(s, hint)
    \/ \E s \in Pair : Destroy(s)
    \/ \E s \in Pair, x \in MutVal : Add(s, x)
    \/ \E s \in Pair, x \in MutVal : Remove(s, x)
    \/ \E s \in Pair : Reset(s)
    \/ \E s \in Pair, o \in Pair : IsSubsetOf(s, o)
    \/ \E s \in Pair, o \in Pair : EqualsOp(s, o)

SpecQuery == Init /\ [][NextQuery]_vars

\* One IntSet object filled with up to MaxGrow values, enough for four growths
\* of a default-constructed set.  The value added is one the set holds or one
\* of the least values it lacks, so that the sets of one size differ only by
\* what remove has taken out.
MaxGrow == 8
GrowVal == 1 .. MaxGrow

NextGrow ==
    \/ \E hint \in Hints : Construct(1, hint)
    \/ Destroy(1)
    \/ \E x \in GrowVal : x <= obj[1].used + 1 /\ Add(1, x)
    \/ \E x \in GrowVal : x = obj[1].used /\ Remove(1, x)
    \/ Reset(1)

SpecGrow == Init /\ [][NextGrow]_vars

\* One IntSet object whose private resize is called with any request, as a
\* member function may call it.  Once used exceeds capacity the copy loop of
\* resize has written past the end of the new array: nothing but the
\* destructor is run on such an object.
Resize(s, new_capacity) ==
    /\ Live(Mem, s)
    /\ obj' = resize(Mem, s, new_capacity).obj
    /\ heap' = resize(Mem, s, new_capacity).heap
    /\ last' = [NoOp EXCEPT !.op = "resize", !.self = s]

Requests == -1 .. MaxVal + 2
Intact == obj[1].used <= obj[1].capacity

NextResize ==
    \/ \E hint \in Hints : Construct(1, hint)
    \/ Destroy(1)
    \/ \E x \in MutVal : Intact /\ Add(1, x)
    \/ \E x \in MutVal : Intact /\ Remove(1, x)
    \/ Intact /\ Reset(1)
    \/ \E n \in Requests : Intact /\ Resize(1, n)

SpecResize == Init /\ [][NextResize]_vars

------------------------------------------------------------------------------
\* ---- properties --------------------------------------------------------

LiveSets == {s \in Sets : Live(Mem, s)}

\* The elements of seq that are in S, in the order of seq.
Keep(seq, S) == SelectSeq(seq, LAMBDA v : v \in S)
Range(seq) == {seq[i] : i \in 1 .. Len(seq)}

\* C1: after A.intersect(B), the returned set holds exactly the values that
\* are members of both A and B, in the order they have in A.
C1_IntersectExact ==
    last.op = "intersect" =>
        Elems(Mem, last.res) = Keep(Elems(Mem, last.self), Members(Mem, last.other))

\* C2: the valid prefix of every set holds no value twice.
C2_NoDuplicates ==
    \A s \in LiveSets :
        \A i, j \in 1 .. obj[s].used : Arr(Mem, s)[i] = Arr(Mem, s)[j] => i = j

\* A set that holds MaxVal values after an add that found its value present.
C2_Witness ==
    /\ last.op = "add" /\ ~last.ret
    /\ obj[last.self].used = MaxVal

\* C3: every set has capacity >= used, capacity >= 1 and used >= 0, and its
\* array has capacity slots.
C3_CapacityBounds ==
    \A s \in LiveSets :
        /\ obj[s].capacity >= obj[s].used
        /\ obj[s].capacity >= 1
        /\ obj[s].used >= 0
        /\ Len(Arr(Mem, s)) = obj[s].capacity

\* A full set, just after the add that made it grow.
C3_Witness ==
    /\ last.op = "add" /\ last.ret
    /\ obj[last.self].used = 2
    /\ obj[last.self].capacity = 2

\* The abstract ordered set: add of an absent value appends, add of a present
\* value does nothing, remove deletes the value.
AbsAdd(q, x) == IF x \in Range(q) THEN q ELSE Append(q, x)
AbsRemove(q, x) == SelectSeq(q, LAMBDA v : v # x)

\* C4: the valid elements follow the abstract ordered set step by step: a
\* constructed or reset set is empty, add appends an absent value and leaves a
\* present one where it is, remove deletes the value and keeps the order of
\* the others (so remove(x) followed by add(x) places x last).
C4_OrderedSetModel ==
    [][\A s \in Sets, x \in MutVal :
        /\ (last'.op = "ctor" /\ last'.res = s) => Elems(MemP, s) = << >>
        /\ (last'.op = "add" /\ Add(s, x)) =>
               Elems(MemP, s) = AbsAdd(Elems(Mem, s), x)
        /\ (last'.op = "remove" /\ Remove(s, x)) =>
               Elems(MemP, s) = AbsRemove(Elems(Mem, s), x)
        /\ (last'.op = "reset" /\ Reset(s)) => Elems(MemP, s) = << >>]_vars

\* The set of the example: 1, 2, 3 added, 1 removed and added again.
C4_Witness ==
    /\ last.op = "add" /\ last.ret
    /\ Elems(Mem, 1) = <<2, 3, 1>>

\* C5: add(x) returns true exactly when x was not a member; a member x leaves
\* the set as it was; an absent x is stored at position used, used grows by
\* one and every valid element keeps its value and position.
C5_AddContract ==
    [][\A s \in Sets, x \in MutVal :
        (last'.op = "add" /\ Add(s, x)) =>
            /\ last'.ret = (x \notin Members(Mem, s))
            /\ x \in Members(Mem, s) =>
                   /\ obj'[s] = obj[s]
                   /\ Arr(MemP, s) = Arr(Mem, s)
            /\ x \notin Members(Mem, s) =>
                   /\ obj'[s].used = obj[s].used + 1
                   /\ obj[s].used + 1 \in DOMAIN Arr(MemP, s)
                   /\ Arr(MemP, s)[obj[s].used + 1] = x
                   /\ \A i \in 1 .. obj[s].used : Arr(MemP, s)[i] = Arr(Mem, s)[i]]_vars

\* A set of three elements just after an add into a full array of two.
C5_Witness ==
    /\ last.op = "add" /\ last.ret
    /\ obj[1].used = 3
    /\ obj[1].capacity = 4

\* C6: remove(x) returns true exactly when x was a member; an absent x leaves
\* the set as it was; a member x is no longer a member, used shrinks by one,
\* capacity stays, the elements before x stay in place and those after x move
\* one position left.
C6_RemoveContract ==
    [][\A s \in Sets, x \in MutVal :
        (last'.op = "remove" /\ Remove(s, x)) =>
            /\ last'.ret = (x \in Members(Mem, s))
            /\ x \notin Members(Mem, s) =>
                   /\ obj'[s] = obj[s]
                   /\ Arr(MemP, s) = Arr(Mem, s)
            /\ x \in Members(Mem, s) =>
                   /\ x \notin Members(MemP, s)
                   /\ obj'[s].used = obj[s].used - 1
                   /\ obj'[s].capacity = obj[s].capacity
                   /\ \E p \in 1 .. obj[s].used :
                          /\ Arr(Mem, s)[p] = x
                          /\ \A i \in 1 .. p - 1 : Arr(MemP, s)[i] = Arr(Mem, s)[i]
                          /\ \A i \in p .. obj[s].used - 1 :
                                 Arr(MemP, s)[i] = Arr(Mem, s)[i + 1]]_vars

\* A removal from three elements that shifted the last one: its old slot
\* still holds it.
C6_Witness ==
    /\ last.op = "remove" /\ last.ret
    /\ obj[1].used = 2
    /\ Arr(Mem, 1)[2] = Arr(Mem, 1)[3]

\* C7: A.unionWith(B) holds A's elements in A's order, followed by the
\* elements of B that are not in A, in B's order.
C7_UnionExact ==
    last.op = "unionWith" =>
        Elems(Mem, last.res) =
            Elems(Mem, last.self)
                \o Keep(Elems(Mem, last.other), AnyInt \ Members(Mem, last.self))

\* A union of a one-element set with a two-element set sharing one value.
C7_Witness ==
    /\ last.op = "unionWith"
    /\ obj[last.self].used = 1
    /\ obj[last.other].used = 2
    /\ obj[last.res].used = 2

\* C8: A.subtract(B) holds exactly the elements of A that are not members of
\* B, in A's order.
C8_SubtractExact ==
    last.op = "subtract" =>
        Elems(Mem, last.res) =
            Keep(Elems(Mem, last.self), AnyInt \ Members(Mem, last.other))

\* A difference that removed one of two elements.
C8_Witness ==
    /\ last.op = "subtract"
    /\ obj[last.self].used = 2
    /\ obj[last.other].used = 1
    /\ obj[last.res].used = 1

\* A step of add, remove or reset on object t.
MutatorStep(t) ==
    /\ last'.op \in {"add", "remove", "reset"}
    /\ last'.self = t

\* Object u and its array are the same before and after the step.
Untouched(u) ==
    /\ obj'[u] = obj[u]
    /\ Live(Mem, u) => Arr(MemP, u) = Arr(Mem, u)

AlgebraOps == {"unionWith", "intersect", "subtract"}

\* C9: unionWith, intersect and subtract leave both operands as they were
\* (also when they are one object), the returned set has an array of its own,
\* and a later add, remove or reset on one set changes no other set.
C9_Step ==
    /\ last'.op \in AlgebraOps =>
          /\ Untouched(last'.self)
          /\ Untouched(last'.other)
          /\ obj'[last'.res].data \notin {obj'[u].data : u \in Sets \ {last'.res}}
    /\ \A t \in Sets : MutatorStep(t) => \A u \in Sets \ {t} : Untouched(u)

C9_AlgebraFrame == [][C9_Step]_vars

\* A set algebra operation whose argument is the invoking set itself.
C9_Witness ==
    /\ last.op \in AlgebraOps
    /\ last.self = last.other
    /\ obj[last.self].used = 2

\* C10: the copy constructor gives the new set the elements, order, used and
\* capacity of the source and an array of its own, leaves the source as it
\* was, and no two sets ever share an array, so that add, remove and reset on
\* either changes only that one.
C10_Step ==
    /\ last'.op = "copy" =>
          /\ Elems(MemP, last'.res) = Elems(Mem, last'.other)
          /\ obj'[last'.res].used = obj[last'.other].used
          /\ obj'[last'.res].capacity = obj[last'.other].capacity
          /\ obj'[last'.res].data # obj'[last'.other].data
          /\ Untouched(last'.other)
    /\ \A t1, t2 \in Sets :
          (t1 # t2 /\ Live(MemP, t1) /\ Live(MemP, t2)) => obj'[t1].data # obj'[t2].data
    /\ \A t \in Sets : MutatorStep(t) =>
          \A u \in Sets \ {t} :
              /\ obj'[u] = obj[u]
              /\ Live(Mem, u) => Elems(MemP, u) = Elems(Mem, u)

C10_CopyIndependent == [][C10_Step]_vars

\* A copy of a two-element set whose array also has a stale slot.
C10_Witness ==
    /\ last.op = "copy"
    /\ obj[last.res].used = 1
    /\ obj[last.res].capacity = 2
    /\ Arr(Mem, last.res)[2] \in Val

\* C11: after s = rhs with rhs another set, s has the valid elements of rhs in
\* the same order, its used and its capacity, rhs is as it was and no two sets
\* share an array; s = s leaves s as it was.
C11_Step ==
    last'.op = "assign" =>
        IF last'.self = last'.other
        THEN Untouched(last'.self)
        ELSE /\ Elems(MemP, last'.self) = Elems(Mem, last'.other)
             /\ obj'[last'.self].used = obj[last'.other].used
             /\ obj'[last'.self].capacity = obj[last'.other].capacity
             /\ Len(Arr(MemP, last'.self)) = obj[last'.other].capacity
             /\ Untouched(last'.other)
             /\ \A t1, t2 \in Sets :
                   (t1 # t2 /\ Live(MemP, t1) /\ Live(MemP, t2))
                       => obj'[t1].data # obj'[t2].data

C11_AssignContract == [][C11_Step]_vars

\* An assignment of a two-element set to another set.
C11_Witness ==
    /\ last.op = "assign"
    /\ last.self # last.other
    /\ obj[last.self].used = 2
    /\ Elems(Mem, last.self) = Elems(Mem, last.other)

\* C12: is1 == is2 returns true exactly when each is a subset of the other,
\* which is exactly when they have the same members, whatever their order and
\* capacity; two empty sets are equal.
C12_EqualsIffSameMembers ==
    last.op = "equals" =>
        /\ last.ret = (isSubsetOf(Mem, last.self, last.other)
                        /\ isSubsetOf(Mem, last.other, last.self))
        /\ last.ret = (Members(Mem, last.self) = Members(Mem, last.other))
        /\ (obj[last.self].used = 0 /\ obj[last.other].used = 0) => last.ret

\* Two equal sets that differ in order and in capacity.
C12_Witness ==
    /\ last.op = "equals" /\ last.ret
    /\ obj[last.self].used = 2
    /\ Elems(Mem, last.self) # Elems(Mem, last.other)
    /\ obj[last.self].capacity # obj[last.other].capacity

\* C13: A.isSubsetOf(B) returns true exactly when every valid element of A is
\* a member of B, so always when A is empty, and changes neither set.
C13_Step ==
    last'.op = "isSubsetOf" =>
        /\ last'.ret = (Members(Mem, last'.self) \subseteq Members(Mem, last'.other))
        /\ obj[last'.self].used = 0 => last'.ret
        /\ obj' = obj
        /\ heap' = heap

C13_SubsetContract == [][C13_Step]_vars

\* A proper subset of two elements found in a set of three.
C13_Witness ==
    /\ last.op = "isSubsetOf" /\ last.ret
    /\ obj[last.self].used = 2
    /\ obj[last.other].used = 3

\* C14: for every set A, A.unionWith(A) == A, A.intersect(A) == A and
\* A.subtract(A).isEmpty().
C14_SelfAlgebra ==
    (last.op \in AlgebraOps /\ last.self = last.other) =>
        /\ last.op \in {"unionWith", "intersect"} =>
               /\ Equals(Mem, last.res, last.self)
               /\ Members(Mem, last.res) = Members(Mem, last.self)
        /\ last.op = "subtract" => isEmpty(Mem, last.res)

\* A set of two elements subtracted from itself.
C14_Witness ==
    /\ last.op = "subtract"
    /\ last.self = last.other
    /\ obj[last.self].used = 2
    /\ isEmpty(Mem, last.res)

\* C15: reset sets used to 0 and leaves capacity as it was; afterwards isEmpty
\* is true, contains(v) is false for every v, and a former member can be added
\* again, add returning true.
C15_Step ==
    /\ last'.op = "reset" =>
           LET s == last'.self IN
           /\ obj'[s].used = 0
           /\ obj'[s].capacity = obj[s].capacity
           /\ isEmpty(MemP, s)
           /\ \A v \in MutVal : ~contains(MemP, s, v)
           /\ \A v \in Members(Mem, s) :
                  /\ addRet(MemP, s, v)
                  /\ Elems(add(MemP, s, v), s) = <<v>>
    /\ (last.op = "reset" /\ last'.op = "add") =>
           /\ last'.ret
           /\ obj'[last'.self].used = 1

C15_ResetContract == [][C15_Step]_vars

\* A set of three elements right after its reset, the three values still in
\* its array.
C15_Witness ==
    /\ last.op = "reset"
    /\ obj[1].used = 0
    /\ obj[1].capacity = 4
    /\ Cardinality({Arr(Mem, 1)[i] : i \in 1 .. 3} \cap MutVal) = 3

\* C16: construction with any initial capacity yields used = 0; an initial
\* capacity <= 0 gives the default capacity, so IntSet(-5) and IntSet(0) are
\* the same set, and an initial capacity > 0 gives exactly that capacity.
C16_Step ==
    \A s \in Sets, hint \in Hints :
        Construct(s, hint) =>
            /\ obj'[s].used = 0
            /\ Elems(MemP, s) = << >>
            /\ hint <= 0 => /\ obj'[s].capacity = DEFAULT_CAPACITY
                            /\ MemP = Ctor(Mem, s, 0)
                            /\ MemP = Ctor(Mem, s, -5)
            /\ hint > 0 => obj'[s].capacity = hint
            /\ Len(Arr(MemP, s)) = obj'[s].capacity

C16_ConstructContract == [][C16_Step]_vars

\* A set just constructed with the largest initial capacity.
C16_Witness ==
    /\ last.op = "ctor"
    /\ obj[last.res].used = 0
    /\ obj[last.res].capacity = MaxHint
    /\ obj[last.res].capacity # DEFAULT_CAPACITY

\* ---- the array accesses of one operation -------------------------------

\* The accesses data[i] of array t for i in idxs, made while memory is m:
\* "test" is a read whose value is compared or looked up, "copy" a read whose
\* value is only stored elsewhere, "write" an assignment to the slot.
Acc(m, t, idxs, kind) ==
    {[set |-> t, index |-> i, used |-> m.obj[t].used,
      capacity |-> m.obj[t].capacity, kind |-> kind] : i \in idxs}

\* contains, isSubsetOf and the search loop of remove: data[index], index < used.
containsAcc(m, t) == Acc(m, t, 0 .. m.obj[t].used - 1, "test")

\* The copy constructor: data[index] = src.data[index], index < capacity.
copyAcc(m, m2, src, t) ==
    Acc(m, src, 0 .. m.obj[src].capacity - 1, "copy")
        \cup Acc(m2, t, 0 .. m.obj[src].capacity - 1, "write")

\* The accesses of the operation recorded in l that led from memory m to m2.
\* The local copy of unionWith, intersect and subtract is accessed through the
\* copy constructor, contains, add and remove only.
Accesses(m, m2, l) ==
    LET s == l.self
        o == l.other
    IN CASE l.op = "add" ->
              containsAcc(m, s) \cup
              (IF l.ret
               THEN {[set |-> s, index |-> m.obj[s].used, used |-> m.obj[s].used,
                      capacity |-> m2.obj[s].capacity, kind |-> "write"]}
               ELSE {})
         [] l.op = "remove" ->
              containsAcc(m, s) \cup
              (IF l.ret
               THEN LET index == CHOOSE i \in 0 .. m.obj[s].used - 1 :
                                     Arr(m, s)[i + 1] \notin Members(m2, s)
                    IN Acc(m, s, index + 1 .. m.obj[s].used - 1, "copy")
                           \cup Acc(m, s, index .. m.obj[s].used - 2, "write")
               ELSE {})
         [] l.op = "copy" -> copyAcc(m, m2, o, l.res)
         [] l.op = "assign" ->
              IF s = o THEN {}
              ELSE Acc(m, o, 0 .. m.obj[o].used - 1, "copy")
                       \cup Acc(m2, s, 0 .. m.obj[o].used - 1, "write")
         [] l.op = "isSubsetOf" ->
              Acc(m, s, 0 .. m.obj[s].used - 1, "test") \cup containsAcc(m, o)
         [] l.op = "equals" -> containsAcc(m, s) \cup containsAcc(m, o)
         [] l.op = "unionWith" ->
              copyAcc(m, m2, s, l.res) \cup Acc(m, o, 0 .. size(m, o) - 1, "test")
         [] l.op = "intersect" ->
              copyAcc(m, m2, s, l.res) \cup Acc(m, s, 0 .. size(m, o) - 1, "test")
                  \cup containsAcc(m, o)
         [] l.op = "subtract" ->
              copyAcc(m, m2, s, l.res) \cup Acc(m, o, 0 .. size(m, o) - 1, "test")
         [] OTHER -> {}

\* C17: no operation reads a slot at a position >= used to decide its result.
C17_Step ==
    \A a \in Accesses(Mem, MemP, last') : a.kind = "test" => a.index < a.used

C17_NoStaleRead == [][C17_Step]_vars

\* C19: every read or write of a set's array uses an index in [0, capacity)
\* of that set.
C19_Step ==
    \A a \in Accesses(Mem, MemP, last') : 0 <= a.index /\ a.index < a.capacity

C19_IndexInRange == [][C19_Step]_vars

\* C18: an add of an absent value to a set with used = capacity changes capacity
\* to floor(capacity * 1.5) + 1; every other add and every remove and reset
\* leave capacity as it was; from capacity 1 the growths give 1, 2, 4, 7, 11.
C18_Step ==
    LET cap == obj[1].capacity
        grown == cap + cap \div 2 + 1
        seq == <<1, 2, 4, 7, 11>>
    IN /\ \A x \in GrowVal :
              Add(1, x) =>
                  /\ obj'[1].capacity =
                         IF ~contains(Mem, 1, x) /\ obj[1].used = cap
                         THEN grown ELSE cap
                  /\ \A i \in 1 .. 4 :
                         (cap = seq[i] /\ obj'[1].capacity # cap)
                             => obj'[1].capacity = seq[i + 1]
       /\ \A x \in GrowVal : Remove(1, x) => obj'[1].capacity = cap
       /\ Reset(1) => obj'[1].capacity = cap

C18_GrowthContract == [][C18_Step]_vars

\* The fourth growth of a default-constructed set: the add of an eighth value.
C18_Witness ==
    /\ last.op = "add" /\ last.ret
    /\ obj[1].used = 8
    /\ obj[1].capacity = 11

\* C20: for every requested capacity, resize leaves the elements and used as
\* they were and sets capacity to the request, except that a request that is
\* invalid or too low gives capacity = used, or the default capacity when used
\* is 0; hence capacity >= used after every resize.
C20_Step ==
    \A n \in Requests :
        (Intact /\ Resize(1, n)) =>
            /\ obj'[1].used = obj[1].used
            /\ obj'[1].capacity =
                   IF n > 0 /\ n >= obj[1].used THEN n
                   ELSE IF obj[1].used = 0 THEN DEFAULT_CAPACITY
                   ELSE obj[1].used
            /\ obj'[1].capacity >= obj'[1].used
            /\ Elems(MemP, 1) = Elems(Mem, 1)

C20_ResizeContract == [][C20_Step]_vars

==============================================================================
